---- MODULE Spec2Model ----
(***************************************************************************)
(* Model of src/pools.ts (curve-js): the Pool class and the swap helper.   *)
(*                                                                         *)
(* Three groups of operations are modelled, each with its own              *)
(* specification over the shared variables:                                *)
(*   SpecGauge     gaugeMaxBoostedDeposit and gaugeOptimalDeposits         *)
(*   SpecSwap      swap -> Pool.init(callback) -> Pool.exchange            *)
(*   SpecLiquidity addLiquidity, removeLiquidityImbalance,                 *)
(*                 removeLiquidityOneCoin (slippage bounds)                *)
(* BigNumber is an arbitrary-precision integer: values are plain integers, *)
(* kept small by the bounds below, and decimal strings are sequences of    *)
(* one-character strings so that formatUnits/parseUnits work on digits.    *)
(***************************************************************************)
EXTENDS Integers, Sequences, FiniteSets, TLC

VARIABLES
    gpc,        \* gauge query position: "idle", "awaitMaxBoosted", "awaitOptimal",
                \* "doneMaxBoosted", "doneOptimal"
    accounts,   \* the accounts argument (after the array unwrapping of line 157/185)
    response,   \* what curve.multicallProvider.all returned
    outcome,    \* "none", "returned", "division-by-zero", "TypeError"
    result,     \* the returned DictInterface<string>: account -> decimal string
    spc,        \* swap(): the await it is suspended at, or "idle", "resolved", "rejected"
    epc,        \* pool.exchange started by the init callback: its await, or
                \* "notStarted", "done", "failed"
    amount,     \* swap's amount argument, amount.toString()
    amountBN,   \* parseUnits(amount, decimals of the input coin)
    coinIdx,    \* <<i, j>> from registry.get_coin_indices
    poolSwap,   \* Pool.swap: null until init has read the pool data
    hasExchangeUnderlying,  \* the swap contract has an exchange_underlying method
    minRecvAmount,          \* computed by exchange after get_dy
    txMethod,   \* the contract method exchange submitted, or "none"
    unhandledRejection,     \* a promise nobody awaits has rejected
    liqOp,      \* liquidity operation in progress
    liqPc,      \* its position: "idle", "ensureAllowance", "estimate", "submit", "done"
    estimate,   \* what calc_token_amount / calc_withdraw_one_coin returned
    limit       \* the min/max amount passed to the contract

gaugeVars == <<gpc, accounts, response, outcome, result>>

swapVars == <<spc, epc, amount, amountBN, coinIdx, poolSwap, hasExchangeUnderlying,
              minRecvAmount, txMethod, unhandledRejection>>

liqVars == <<liqOp, liqPc, estimate, limit>>

vars == <<gpc, accounts, response, outcome, result,
          spc, epc, amount, amountBN, coinIdx, poolSwap, hasExchangeUnderlying,
          minRecvAmount, txMethod, unhandledRejection,
          liqOp, liqPc, estimate, limit>>

----------------------------------------------------------------------------
(* Bounds *)

MaxAccounts == 3
MaxVe == 2
MaxLp == 2
MaxGaugeBal == 1
MaxSupply == 2
MaxDecimals == 2
MaxCoins == 2
MaxExpected == 3
MaxEstimate == 205

(* Program constants *)

Decimals == 18

Accounts == {"0xA", "0xB"}

RECURSIVE SeqsUpTo(_, _)
SeqsUpTo(S, n) ==
    IF n = 0 THEN {<<>>}
    ELSE LET shorter == SeqsUpTo(S, n - 1)
         IN  shorter \cup {Append(s, x) : s \in {t \in shorter : Len(t) = n - 1}, x \in S}

----------------------------------------------------------------------------
(* ethers BigNumber and decimal strings *)

Abs(x) == IF x < 0 THEN -x ELSE x

\* BigNumber.div truncates toward zero. On a zero divisor it throws; the
\* outcome operators below decide that first, and the 0 here is never read
\* in a call that ends "returned".
BNDiv(a, b) ==
    IF b = 0 THEN 0
    ELSE IF (a < 0) = (b < 0) THEN Abs(a) \div Abs(b) ELSE -(Abs(a) \div Abs(b))

DigitChars == <<"0", "1", "2", "3", "4", "5", "6", "7", "8", "9">>

DigitOf(c) == CHOOSE d \in 0..9 : DigitChars[d + 1] = c

\* BigNumber.toString() of a non-negative value
RECURSIVE NatToChars(_)
NatToChars(n) ==
    IF n < 10 THEN <<DigitChars[n + 1]>>
    ELSE NatToChars(n \div 10) \o <<DigitChars[(n % 10) + 1]>>

\* BigNumber.from(decimal digits)
RECURSIVE CharsToNat(_)
CharsToNat(s) ==
    IF s = <<>> THEN 0
    ELSE 10 * CharsToNat(SubSeq(s, 1, Len(s) - 1)) + DigitOf(s[Len(s)])

Zeros(n) == [i \in 1..n |-> "0"]

\* the regular expression /^([0-9]*[1-9]|0)(0*)/ of formatFixed: drop the
\* trailing zeros of the fraction, keeping a single "0" when all are zero
RECURSIVE StripTrailingZeros(_)
StripTrailingZeros(s) ==
    IF Len(s) <= 1 THEN s
    ELSE IF s[Len(s)] = "0" THEN StripTrailingZeros(SubSeq(s, 1, Len(s) - 1))
    ELSE s

\* ethers.utils.formatUnits(value, decimals): value / 10^decimals as a decimal
\* string "[-]whole.fraction". value.mod(10^decimals) and value.div(10^decimals)
\* are the last `decimals` digits and the digits before them.
formatUnits(value, decimals) ==
    LET negative == value < 0
        digits   == NatToChars(Abs(value))
        padded   == IF Len(digits) <= decimals
                    THEN Zeros(decimals + 1 - Len(digits)) \o digits
                    ELSE digits
        whole    == SubSeq(padded, 1, Len(padded) - decimals)
        fraction == StripTrailingZeros(SubSeq(padded, Len(padded) - decimals + 1, Len(padded)))
        str      == IF decimals = 0 THEN whole ELSE whole \o <<".">> \o fraction
    IN  IF negative THEN <<"-">> \o str ELSE str

\* ethers.utils.parseUnits(str, decimals) on a well-formed decimal string:
\* whole * 10^decimals + fraction padded with zeros to `decimals` digits.
parseUnits(str, decimals) ==
    LET negative == Len(str) > 0 /\ str[1] = "-"
        body     == IF negative THEN SubSeq(str, 2, Len(str)) ELSE str
        dots     == {i \in 1..Len(body) : body[i] = "."}
        dot      == IF dots = {} THEN Len(body) + 1 ELSE CHOOSE i \in dots : TRUE
        whole    == SubSeq(body, 1, dot - 1)
        fraction == SubSeq(body, dot + 1, Len(body))
        wei      == CharsToNat(whole \o fraction \o Zeros(decimals - Len(fraction)))
    IN  IF negative THEN -wei ELSE wei

----------------------------------------------------------------------------
(* DictInterface<T>: a function from the keys inserted so far *)

EmptyDict == [k \in {} |-> 0]

Keys(accts) == {accts[i] : i \in DOMAIN accts}

RECURSIVE SumValues(_)
SumValues(dict) ==
    IF DOMAIN dict = {} THEN 0
    ELSE LET k == CHOOSE x \in DOMAIN dict : TRUE
         IN  dict[k] + SumValues([x \in DOMAIN dict \ {k} |-> dict[x]])

\* for (const entry of Object.entries(resultBN)) result[entry[0]] = formatUnits(entry[1], 18)
FormatDict(dictBN) == [k \in DOMAIN dictBN |-> formatUnits(dictBN[k], Decimals)]

NoResponse ==
    [veTotalSupply |-> 0, gaugeTotalSupply |-> 0,
     veBalance |-> EmptyDict, lpBalance |-> EmptyDict, gaugeBalance |-> EmptyDict]

----------------------------------------------------------------------------
(* Pool.gaugeMaxBoostedDeposit *)

\* variant: the division taken before the multiplication
MaxBoostedBN_DivFirst(accts, resp) ==
    [a \in Keys(accts) |->
        resp.gaugeTotalSupply * BNDiv(resp.veBalance[a], resp.veTotalSupply)]

\* resultBN[acct] = gaugeTotalSupply.mul(response[i]).div(veTotalSupply)
MaxBoostedBN(accts, resp) ==
    [a \in Keys(accts) |->
        BNDiv(resp.gaugeTotalSupply * resp.veBalance[a], resp.veTotalSupply)]

MaxBoostedOutcome(accts, resp) ==
    IF accts # <<>> /\ resp.veTotalSupply = 0 THEN "division-by-zero" ELSE "returned"

\* accounts unwrapped, the multicall built and sent: the function is now
\* suspended at `await curve.multicallProvider.all(contractCalls)`
GaugeMaxBoostedDepositCall ==
    /\ gpc = "idle"
    /\ \E accts \in SeqsUpTo(Accounts, MaxAccounts) : accounts' = accts
    /\ gpc' = "awaitMaxBoosted"
    /\ UNCHANGED <<response, outcome, result>>
    /\ UNCHANGED <<swapVars, liqVars>>

\* the multicall answers; the rest of the function runs synchronously
GaugeMaxBoostedDepositResume ==
    /\ gpc = "awaitMaxBoosted"
    /\ \E veTotal \in 0..MaxSupply, gaugeTotal \in 0..MaxSupply,
          ve \in [Keys(accounts) -> 0..MaxVe] :
          LET resp == [veTotalSupply |-> veTotal, gaugeTotalSupply |-> gaugeTotal,
                       veBalance |-> ve, lpBalance |-> EmptyDict,
                       gaugeBalance |-> EmptyDict]
          IN  /\ response' = resp
              /\ outcome' = MaxBoostedOutcome(accounts, resp)
              /\ result' = IF MaxBoostedOutcome(accounts, resp) = "returned"
                           THEN FormatDict(MaxBoostedBN(accounts, resp))
                           ELSE EmptyDict
    /\ gpc' = "doneMaxBoosted"
    /\ UNCHANGED accounts
    /\ UNCHANGED <<swapVars, liqVars>>

----------------------------------------------------------------------------
(* Pool.gaugeOptimalDeposits *)

\* votePct[acct] = response[0].div(veTotalSupply), one entry per distinct key
VotePct(accts, resp) ==
    [a \in Keys(accts) |-> BNDiv(resp.veBalance[a], resp.veTotalSupply)]

\* totalBalance = totalBalance.add(response[1]).add(response[2]), once per
\* element of accounts
RECURSIVE TotalBalance(_, _)
TotalBalance(accts, resp) ==
    IF accts = <<>> THEN 0
    ELSE resp.lpBalance[Head(accts)] + resp.gaugeBalance[Head(accts)]
         + TotalBalance(Tail(accts), resp)

\* Object.values(votePct).reduce((sum, item) => sum.add(item)); the caller
\* has ruled out the empty dictionary, on which reduce throws
TotalPct(votePct) == SumValues(votePct)

\* Object.fromEntries(accounts.map((acc) => [acc, BigNumber.from(0)]))
ZeroDict(accts) == [a \in Keys(accts) |-> 0]

\* totalBalance.div(gaugeTotalSupply).lt(totalPct)
IsUndersubscribed(totalBalance, gaugeTotalSupply, totalPct) ==
    BNDiv(totalBalance, gaugeTotalSupply) < totalPct

\* variant: the amount is the cap, never clamped to the remaining balance
RECURSIVE UndersubscribedFill_NoClamp(_, _, _, _, _)
UndersubscribedFill_NoClamp(accts, votePct, gaugeTotalSupply, optimalBN, totalBalance) ==
    IF accts = <<>> THEN optimalBN
    ELSE LET acct   == Head(accts)
             cap    == votePct[acct] * gaugeTotalSupply
             filled == [optimalBN EXCEPT ![acct] = cap]
             rest   == totalBalance - cap
         IN  IF rest <= 0 THEN filled
             ELSE UndersubscribedFill_NoClamp(Tail(accts), votePct, gaugeTotalSupply,
                                              filled, rest)

\* the loop of the first branch, from the account at the head of accts on
RECURSIVE UndersubscribedFill(_, _, _, _, _)
UndersubscribedFill(accts, votePct, gaugeTotalSupply, optimalBN, totalBalance) ==
    IF accts = <<>> THEN optimalBN
    ELSE LET acct   == Head(accts)
             cap    == votePct[acct] * gaugeTotalSupply
             amt    == IF cap < totalBalance THEN cap ELSE totalBalance
             filled == [optimalBN EXCEPT ![acct] = amt]
             rest   == totalBalance - amt
         IN  IF rest <= 0 THEN filled
             ELSE UndersubscribedFill(Tail(accts), votePct, gaugeTotalSupply, filled, rest)

\* if (totalPct.lt(0)) { ... }
ProportionalGuard(totalPct) == totalPct < 0

\* variant: the remainder taken with the operands of sub exchanged
OversubscribedFill_SubSwapped(accts, votePct, totalPct, totalBalance) ==
    LET proportional ==
            IF ProportionalGuard(totalPct)
            THEN [a \in Keys(accts) |-> BNDiv(votePct[a], totalPct) * totalBalance]
            ELSE ZeroDict(accts)
    IN  [proportional EXCEPT ![accts[1]] = @ + (SumValues(proportional) - totalBalance)]

\* the else branch: the proportional loop under its guard, then the remainder
\* added to accounts[0]
OversubscribedFill(accts, votePct, totalPct, totalBalance) ==
    LET proportional ==
            IF ProportionalGuard(totalPct)
            THEN [a \in Keys(accts) |-> BNDiv(votePct[a], totalPct) * totalBalance]
            ELSE ZeroDict(accts)
    IN  [proportional EXCEPT ![accts[1]] = @ + (totalBalance - SumValues(proportional))]

\* optimalBN at line 231, for a call that got that far
OptimalBN(accts, resp) ==
    LET votePct      == VotePct(accts, resp)
        totalBalance == TotalBalance(accts, resp)
        totalPct     == TotalPct(votePct)
    IN  IF IsUndersubscribed(totalBalance, resp.gaugeTotalSupply, totalPct)
        THEN UndersubscribedFill(accts, votePct, resp.gaugeTotalSupply,
                                 ZeroDict(accts), totalBalance)
        ELSE OversubscribedFill(accts, votePct, totalPct, totalBalance)

\* variant: a division by a zero gauge supply does not throw
OptimalOutcome_NoSupplyCheck(accts, resp) ==
    IF accts # <<>> /\ resp.veTotalSupply = 0 THEN "division-by-zero"
    ELSE IF Keys(accts) = {} THEN "TypeError"
    ELSE "returned"

\* how the call ends: the first statement that throws, in program order
OptimalOutcome(accts, resp) ==
    IF accts # <<>> /\ resp.veTotalSupply = 0 THEN "division-by-zero"  \* line 206
    ELSE IF Keys(accts) = {} THEN "TypeError"                           \* line 211
    ELSE IF resp.gaugeTotalSupply = 0 THEN "division-by-zero"          \* line 213
    ELSE "returned"

GaugeOptimalDepositsCall ==
    /\ gpc = "idle"
    /\ \E accts \in SeqsUpTo(Accounts, MaxAccounts) : accounts' = accts
    /\ gpc' = "awaitOptimal"
    /\ UNCHANGED <<response, outcome, result>>
    /\ UNCHANGED <<swapVars, liqVars>>

GaugeOptimalDepositsResume ==
    /\ gpc = "awaitOptimal"
    /\ \E veTotal \in 0..MaxSupply, gaugeTotal \in 0..MaxSupply,
          ve \in [Keys(accounts) -> 0..MaxVe],
          lp \in [Keys(accounts) -> 0..MaxLp],
          gb \in [Keys(accounts) -> 0..MaxGaugeBal] :
          LET resp == [veTotalSupply |-> veTotal, gaugeTotalSupply |-> gaugeTotal,
                       veBalance |-> ve, lpBalance |-> lp, gaugeBalance |-> gb]
          IN  /\ response' = resp
              /\ outcome' = OptimalOutcome(accounts, resp)
              /\ result' = IF OptimalOutcome(accounts, resp) = "returned"
                           THEN FormatDict(OptimalBN(accounts, resp))
                           ELSE EmptyDict
    /\ gpc' = "doneOptimal"
    /\ UNCHANGED accounts
    /\ UNCHANGED <<swapVars, liqVars>>

----------------------------------------------------------------------------
(* swap, Pool.init and Pool.exchange *)

\* amounts a caller passes to swap, as amount.toString()
Amounts == {<<"1">>, <<"2">>, <<"1", ".", "5">>, <<"0", ".", "2", "5">>}

\* parseUnits throws "fractional component exceeds decimals"
FractionLen(str) ==
    LET dots == {i \in 1..Len(str) : str[i] = "."}
    IN  IF dots = {} THEN 0 ELSE Len(str) - (CHOOSE i \in dots : TRUE)

ParseThrows(str, decimals) == FractionLen(str) > decimals

\* expected.mul((1 - maxSlippage) * 100).div(100) with maxSlippage = 0.01
MinRecv(expected) == BNDiv(expected * 99, 100)

\* swap(inputCoinAddress, outputCoinAddress, amount) is called and suspends at
\* `await addressProviderContract.get_registry()`
SwapCall ==
    /\ spc = "idle"
    /\ \E a \in Amounts : amount' = a
    /\ spc' = "get_registry"
    /\ UNCHANGED <<epc, amountBN, coinIdx, poolSwap, hasExchangeUnderlying,
                   minRecvAmount, txMethod, unhandledRejection>>
    /\ UNCHANGED <<gaugeVars, liqVars>>

\* get_registry answers; next await: inputCoinContract.decimals()
SwapGetRegistry ==
    /\ spc = "get_registry"
    /\ spc' = "decimals"
    /\ UNCHANGED <<epc, amount, amountBN, coinIdx, poolSwap, hasExchangeUnderlying,
                   minRecvAmount, txMethod, unhandledRejection>>
    /\ UNCHANGED <<gaugeVars, liqVars>>

\* decimals() answers; amountBN = parseUnits(...), which may throw; then
\* _getBestPoolAndOutput runs up to its get_address(2), its own decimals()
\* (same contract, same answer, same parse) and its get_best_rate
SwapDecimals ==
    /\ spc = "decimals"
    /\ \E d \in 0..MaxDecimals :
          IF ParseThrows(amount, d)
          THEN /\ spc' = "rejected"
               /\ UNCHANGED amountBN
          ELSE /\ spc' = "get_best_rate"
               /\ amountBN' = parseUnits(amount, d)
    /\ UNCHANGED <<epc, amount, coinIdx, poolSwap, hasExchangeUnderlying,
                   minRecvAmount, txMethod, unhandledRejection>>
    /\ UNCHANGED <<gaugeVars, liqVars>>

\* get_best_rate answers; getPoolNameBySwapAddress; next await: get_coin_indices
SwapGetBestRate ==
    /\ spc = "get_best_rate"
    /\ spc' = "get_coin_indices"
    /\ UNCHANGED <<epc, amount, amountBN, coinIdx, poolSwap, hasExchangeUnderlying,
                   minRecvAmount, txMethod, unhandledRejection>>
    /\ UNCHANGED <<gaugeVars, liqVars>>

\* get_coin_indices answers [i, j, is_underlying]; new Pool(poolName);
\* pool.init(callback) suspends at `await getPoolData(this.name)`
SwapGetCoinIndices ==
    /\ spc = "get_coin_indices"
    /\ \E i \in 0..(MaxCoins - 1), j \in 0..(MaxCoins - 1) :
          /\ i # j
          /\ coinIdx' = <<i, j>>
    /\ spc' = "getPoolData"
    /\ UNCHANGED <<epc, amount, amountBN, poolSwap, hasExchangeUnderlying,
                   minRecvAmount, txMethod, unhandledRejection>>
    /\ UNCHANGED <<gaugeVars, liqVars>>

\* getPoolData answers: init sets the pool's fields and calls the callback,
\* which runs pool.exchange up to `await ...get_dy(i, j, amount)` and hands
\* back a promise that `callback.bind(this)()` drops. init then returns, so
\* swap's continuation is the next microtask (spc = "initReturned").
PoolInit ==
    /\ spc = "getPoolData"
    /\ poolSwap' = "swap_address"
    /\ \E u \in BOOLEAN : hasExchangeUnderlying' = u
    /\ epc' = "get_dy"
    /\ spc' = "initReturned"
    /\ UNCHANGED <<amount, amountBN, coinIdx, minRecvAmount, txMethod, unhandledRejection>>
    /\ UNCHANGED <<gaugeVars, liqVars>>

\* microtask: `await pool.init(...)` completes and swap's promise resolves
SwapResolve ==
    /\ spc = "initReturned"
    /\ spc' = "resolved"
    /\ UNCHANGED <<epc, amount, amountBN, coinIdx, poolSwap, hasExchangeUnderlying,
                   minRecvAmount, txMethod, unhandledRejection>>
    /\ UNCHANGED <<gaugeVars, liqVars>>

\* one of swap's own contract calls rejects: swap's promise rejects
SwapCallFails ==
    /\ spc \in {"get_registry", "decimals", "get_best_rate", "get_coin_indices",
                "getPoolData"}
    /\ spc' = "rejected"
    /\ UNCHANGED <<epc, amount, amountBN, coinIdx, poolSwap, hasExchangeUnderlying,
                   minRecvAmount, txMethod, unhandledRejection>>
    /\ UNCHANGED <<gaugeVars, liqVars>>

\* network answers are macrotasks: they run only when no microtask is pending
NoMicrotask == spc # "initReturned"

\* get_dy answers; minRecvAmount; next await: ensureAllowance
ExchangeGetDy ==
    /\ epc = "get_dy"
    /\ NoMicrotask
    /\ \E expected \in 0..MaxExpected : minRecvAmount' = MinRecv(expected)
    /\ epc' = "ensureAllowance"
    /\ UNCHANGED <<spc, amount, amountBN, coinIdx, poolSwap, hasExchangeUnderlying,
                   txMethod, unhandledRejection>>
    /\ UNCHANGED <<gaugeVars, liqVars>>

\* the allowance is in place; exchange_underlying or exchange is submitted
ExchangeEnsureAllowance ==
    /\ epc = "ensureAllowance"
    /\ NoMicrotask
    /\ txMethod' = IF hasExchangeUnderlying THEN "exchange_underlying" ELSE "exchange"
    /\ epc' = "submit"
    /\ UNCHANGED <<spc, amount, amountBN, coinIdx, poolSwap, hasExchangeUnderlying,
                   minRecvAmount, unhandledRejection>>
    /\ UNCHANGED <<gaugeVars, liqVars>>

\* the transaction response arrives: exchange returns its hash, the callback's
\* promise resolves
ExchangeSubmitted ==
    /\ epc = "submit"
    /\ NoMicrotask
    /\ epc' = "done"
    /\ UNCHANGED <<spc, amount, amountBN, coinIdx, poolSwap, hasExchangeUnderlying,
                   minRecvAmount, txMethod, unhandledRejection>>
    /\ UNCHANGED <<gaugeVars, liqVars>>

\* get_dy, ensureAllowance or the exchange transaction rejects: exchange and
\* with it the callback's promise reject; nothing awaits that promise
ExchangeFails ==
    /\ epc \in {"get_dy", "ensureAllowance", "submit"}
    /\ NoMicrotask
    /\ epc' = "failed"
    /\ unhandledRejection' = TRUE
    /\ UNCHANGED <<spc, amount, amountBN, coinIdx, poolSwap, hasExchangeUnderlying,
                   minRecvAmount, txMethod>>
    /\ UNCHANGED <<gaugeVars, liqVars>>

----------------------------------------------------------------------------
(* addLiquidity, removeLiquidityImbalance, removeLiquidityOneCoin *)

\* minMintAmount.div(100).mul(99), minAmount.div(100).mul(99)
MinAmount(est) == BNDiv(est, 100) * 99

\* maxBurnAmount.div(100).mul(101)
MaxBurnAmount(est) == BNDiv(est, 100) * 101

\* addLiquidity suspends at `await ensureAllowance(...)`
AddLiquidityCall ==
    /\ liqPc = "idle"
    /\ liqOp' = "addLiquidity"
    /\ liqPc' = "ensureAllowance"
    /\ UNCHANGED <<estimate, limit>>
    /\ UNCHANGED <<gaugeVars, swapVars>>

\* then at `await this.calcLpTokenAmount(amounts)`
AddLiquidityAllowance ==
    /\ liqPc = "ensureAllowance"
    /\ liqPc' = "estimate"
    /\ UNCHANGED <<liqOp, estimate, limit>>
    /\ UNCHANGED <<gaugeVars, swapVars>>

\* removeLiquidityImbalance suspends at `await this.calcLpTokenAmount(amounts, false)`
RemoveLiquidityImbalanceCall ==
    /\ liqPc = "idle"
    /\ liqOp' = "removeLiquidityImbalance"
    /\ liqPc' = "estimate"
    /\ UNCHANGED <<estimate, limit>>
    /\ UNCHANGED <<gaugeVars, swapVars>>

\* removeLiquidityOneCoin suspends at `await this.calcWithdrawOneCoin(lpTokenAmount, i)`
RemoveLiquidityOneCoinCall ==
    /\ liqPc = "idle"
    /\ liqOp' = "removeLiquidityOneCoin"
    /\ liqPc' = "estimate"
    /\ UNCHANGED <<estimate, limit>>
    /\ UNCHANGED <<gaugeVars, swapVars>>

\* the estimate arrives; the bound is computed and the transaction submitted
LiquidityEstimate ==
    /\ liqPc = "estimate"
    /\ \E est \in 0..MaxEstimate :
          /\ estimate' = est
          /\ limit' = IF liqOp = "removeLiquidityImbalance"
                      THEN MaxBurnAmount(est) ELSE MinAmount(est)
    /\ liqPc' = "submit"
    /\ UNCHANGED liqOp
    /\ UNCHANGED <<gaugeVars, swapVars>>

\* the transaction response arrives and its hash is returned
LiquiditySubmitted ==
    /\ liqPc = "submit"
    /\ liqPc' = "done"
    /\ UNCHANGED <<liqOp, estimate, limit>>
    /\ UNCHANGED <<gaugeVars, swapVars>>

----------------------------------------------------------------------------

Init ==
    /\ gpc = "idle"
    /\ accounts = <<>>
    /\ response = NoResponse
    /\ outcome = "none"
    /\ result = EmptyDict
    /\ spc = "idle"
    /\ epc = "notStarted"
    /\ amount = <<>>
    /\ amountBN = 0
    /\ coinIdx = <<0, 0>>
    /\ poolSwap = "null"
    /\ hasExchangeUnderlying = FALSE
    /\ minRecvAmount = 0
    /\ txMethod = "none"
    /\ unhandledRejection = FALSE
    /\ liqOp = "none"
    /\ liqPc = "idle"
    /\ estimate = 0
    /\ limit = 0

NextGauge ==
    \/ GaugeMaxBoostedDepositCall
    \/ GaugeMaxBoostedDepositResume
    \/ GaugeOptimalDepositsCall
    \/ GaugeOptimalDepositsResume

NextSwap ==
    \/ SwapCall
    \/ SwapGetRegistry
    \/ SwapDecimals
    \/ SwapGetBestRate
    \/ SwapGetCoinIndices
    \/ PoolInit
    \/ SwapResolve
    \/ SwapCallFails
    \/ ExchangeGetDy
    \/ ExchangeEnsureAllowance
    \/ ExchangeSubmitted
    \/ ExchangeFails

NextLiquidity ==
    \/ AddLiquidityCall
    \/ AddLiquidityAllowance
    \/ RemoveLiquidityImbalanceCall
    \/ RemoveLiquidityOneCoinCall
    \/ LiquidityEstimate
    \/ LiquiditySubmitted

SpecGauge == Init /\ [][NextGauge]_vars

SpecSwap == Init /\ [][NextSwap]_vars

SpecLiquidity == Init /\ [][NextLiquidity]_vars

----------------------------------------------------------------------------
(* Properties *)

Min(a, b) == IF a < b THEN a ELSE b

\* the returned mapping read back as 18-decimal amounts
ReturnedBN == [a \in DOMAIN result |-> parseUnits(result[a], Decimals)]

OptimalReturned == gpc = "doneOptimal" /\ outcome = "returned"

Distinct(accts) == Cardinality(Keys(accts)) = Len(accts)

RECURSIVE SumVe(_, _)
SumVe(accts, resp) ==
    IF accts = <<>> THEN 0 ELSE resp.veBalance[Head(accts)] + SumVe(Tail(accts), resp)

\* totalBalance / gaugeTotalSupply < totalSharePct, with each share the exact
\* fraction veBalance / veTotalSupply (compared by cross-multiplication)
UnderReal ==
    TotalBalance(accounts, response) * response.veTotalSupply
        < SumVe(accounts, response) * response.gaugeTotalSupply

\* votePowerFraction x gaugeTotalSupply, truncated
Cap(a) == (response.gaugeTotalSupply * response.veBalance[a]) \div response.veTotalSupply

\* the in-order greedy fill: what account i is given
RECURSIVE GreedyGiven(_)
GreedyGiven(i) ==
    LET RECURSIVE Before(_)
        Before(k) == IF k = 0 THEN 0 ELSE GreedyGiven(k) + Before(k - 1)
    IN  Min(Cap(accounts[i]), TotalBalance(accounts, response) - Before(i - 1))

\* the proportional share of account i
Share(i) ==
    (TotalBalance(accounts, response) * response.veBalance[accounts[i]])
        \div SumVe(accounts, response)

RECURSIVE SumShares(_)
SumShares(i) == IF i < 2 THEN 0 ELSE Share(i) + SumShares(i - 1)

\* denominators whose fractions are exact in 18 decimals
ExactDecimal(d) == d \in {1, 2, 4, 5, 8, 10}

\* C1: conservation. Whenever gaugeOptimalDeposits returns, the amounts of
\* the returned mapping sum to totalBalance, the sum over the requested
\* accounts of LP-token balance + gauge balance.
C1_Conservation ==
    OptimalReturned => SumValues(ReturnedBN) = TotalBalance(accounts, response)

\* C2: in the oversubscribed/balanced branch every account after the first is
\* given votePowerFraction / totalSharePct x totalBalance and the first its
\* share plus the rounding remainder (stated where the fractions are exact
\* in 18 decimals and the accounts pairwise distinct).
C2_Proportional ==
    (/\ OptimalReturned
     /\ Distinct(accounts)
     /\ ~UnderReal
     /\ ExactDecimal(SumVe(accounts, response)))
    => /\ \A i \in 2..Len(accounts) : ReturnedBN[accounts[i]] = Share(i)
       /\ ReturnedBN[accounts[1]]
            = TotalBalance(accounts, response) - SumShares(Len(accounts))

\* C3: in the undersubscribed branch the accounts are filled in input order,
\* each with min(votePowerFraction x gaugeTotalSupply, remaining balance)
\* (stated for pairwise distinct accounts; within the bounds every fraction
\* is exact in 18 decimals).
C3_GreedyFill ==
    (OptimalReturned /\ Distinct(accounts) /\ UnderReal)
    => \A i \in 1..Len(accounts) : ReturnedBN[accounts[i]] = GreedyGiven(i)

\* C4: gaugeOptimalDeposits called with no account and non-zero supplies
\* returns the empty mapping.
C4_EmptyAccounts ==
    (/\ gpc = "doneOptimal"
     /\ accounts = <<>>
     /\ response.veTotalSupply # 0
     /\ response.gaugeTotalSupply # 0)
    => outcome = "returned" /\ result = EmptyDict

\* C5: whenever gaugeMaxBoostedDeposit returns, each requested account maps
\* to gaugeTotalSupply x its voting balance / veTotalSupply (truncated), a
\* function of that account's voting balance and the two supplies only, and
\* an account with voting balance 0 maps to "0.0".
C5_MaxBoostedCap ==
    (gpc = "doneMaxBoosted" /\ outcome = "returned")
    => /\ DOMAIN result = Keys(accounts)
       /\ \A a \in DOMAIN result :
            /\ parseUnits(result[a], Decimals) = Cap(a)
            /\ response.veBalance[a] = 0 => result[a] = <<"0", ".", "0">>

C5_Witness ==
    /\ gpc = "doneMaxBoosted"
    /\ outcome = "returned"
    /\ Len(accounts) >= 2
    /\ \E a \in DOMAIN result, b \in DOMAIN result :
          /\ response.veBalance[a] = 0
          /\ response.veBalance[b] > 0
          /\ response.veBalance[b] < response.veTotalSupply
          /\ parseUnits(result[b], Decimals) > 0
          /\ response.gaugeTotalSupply > 0

C7_NonNegative ==
    OptimalReturned
    => \A a \in DOMAIN result : ReturnedBN[a] >= 0 /\ result[a][1] # "-"

C7_Witness ==
    /\ OptimalReturned
    /\ IsUndersubscribed(TotalBalance(accounts, response), response.gaugeTotalSupply,
                         TotalPct(VotePct(accounts, response)))
    /\ Len(accounts) >= 2
    /\ ReturnedBN[accounts[1]] > 0
    /\ ReturnedBN[accounts[2]] > 0
    /\ ReturnedBN[accounts[2]] < VotePct(accounts, response)[accounts[2]]
                                    * response.gaugeTotalSupply

\* C8: called with exactly one account, gaugeOptimalDeposits gives it the
\* full totalBalance in the oversubscribed/balanced branch and
\* min(cap, totalBalance) in the undersubscribed branch, whether the branch
\* is told by the exact fractions or by the code's truncated ones.
C8_SingleAccount ==
    (OptimalReturned /\ Len(accounts) = 1)
    => LET a   == accounts[1]
           tb  == TotalBalance(accounts, response)
           pct == VotePct(accounts, response)
       IN  /\ ReturnedBN[a] = (IF UnderReal THEN Min(Cap(a), tb) ELSE tb)
           /\ ReturnedBN[a] =
                (IF IsUndersubscribed(tb, response.gaugeTotalSupply, TotalPct(pct))
                 THEN Min(pct[a] * response.gaugeTotalSupply, tb) ELSE tb)

C8_Witness ==
    /\ OptimalReturned
    /\ Len(accounts) = 1
    /\ UnderReal
    /\ IsUndersubscribed(TotalBalance(accounts, response), response.gaugeTotalSupply,
                         TotalPct(VotePct(accounts, response)))
    /\ ReturnedBN[accounts[1]] > 0

\* C9: swap's promise settles only after the exchange started by the init
\* callback has been submitted and answered, and rejects if that exchange fails.
C9_SwapAfterExchange ==
    /\ spc = "resolved" => epc = "done"
    /\ epc = "failed" => spc = "rejected"

\* C10: the bound passed to the contract is on the safe side of the estimate:
\* maxBurnAmount >= estimate for removeLiquidityImbalance, the minimum amount
\* <= estimate for addLiquidity and removeLiquidityOneCoin.
C10_SlippageSafeSide ==
    liqPc \in {"submit", "done"}
    => IF liqOp = "removeLiquidityImbalance"
       THEN limit >= estimate
       ELSE limit <= estimate

====
